---- MODULE Spec2Model ----
(***************************************************************************)
(* A model of the alien-shooter game of src/src/main.rs (Bevy ECS).        *)
(*                                                                         *)
(* One engine frame runs the schedules First/PreUpdate (input and clock),  *)
(* StateTransition (NextState is applied, OnEnter schedules run),          *)
(* RunFixedUpdateLoop (the FixedUpdate chain, zero or more times), and     *)
(* Update.  Every system of main.rs is one action; pc is the place of the  *)
(* scheduler inside the frame.                                             *)
(*                                                                         *)
(* Units: positions are whole Transform units, durations are hundredths    *)
(* of a second.  With the speeds of main.rs (700 and 300 units/s) every    *)
(* displacement velocity * dt is then a whole number, so the arithmetic    *)
(* is exact (f32 rounding is not modelled).                                *)
(***************************************************************************)
EXTENDS Integers, Sequences, FiniteSets, TLC

----------------------------------------------------------------------------
(* Constants of main.rs.                                                   *)

PADDLE_SIZE == [x |-> 120, y |-> 20]
GAP_BETWEEN_PADDLE_AND_FLOOR == 60
PADDLE_SPEED == 700
PADDLE_PADDING == 10

BULLET_SIZE == [x |-> 15, y |-> 15]
BULLET_SPEED == 700
ALIEN_SPEED == 300
INITIAL_BULLET_DIRECTION == [x |-> 0, y |-> 1]
INITIAL_ALIEN_DIRECTION == [x |-> 0, y |-> -1]

WALL_THICKNESS == 10
LEFT_WALL == -450
RIGHT_WALL == 450
BOTTOM_WALL == -300
TOP_WALL == 300

ALIEN_SIZE == [x |-> 70, y |-> 30]

\* ALIEN_SPAWN_TIME, in seconds.
ALIEN_SPAWN_TIME == 1

\* insert_resource(Scoreboard { score: 0 }), insert_resource(LivesCounter { count: 3 })
INITIAL_SCORE == 0
INITIAL_LIVES == 3

\* LivesCounter.count is a u16: its values are 0 .. U16_MAX.
U16_MAX == 65535

----------------------------------------------------------------------------
(* Bounds of the model.                                                    *)

\* FixedUpdate runs at most this many times in the whole run, for each class
\* of input below.
RainTicks == 7
SteerTicks == 3
ShootTicks == 4
GrazeTicks == 5
AimTicks == 2
StallTicks == 2
ExitTicks == 3
SiegeTicks == 7
\* FixedUpdate runs at most this many times in one engine frame.
MaxTicksPerFrame == 2
\* The Fire key goes down only while fewer projectiles than this exist.
MaxBullets == 2

\* The values gen_range is asked to choose among (those outside
\* lower_bound..upper_bound are never returned).
SpawnCandidates == {-415, -380, 0, 380}

\* The same, for the runs in which every alien comes down on the paddle.
AbovePaddle == {0}

\* The keyboard states the engine can report.
KeyStates == [left : BOOLEAN, right : BOOLEAN, space : BOOLEAN]

NoKeys == [left |-> FALSE, right |-> FALSE, space |-> FALSE]

\* The frame times, in hundredths of a second, of the first runs of the
\* "siege" class: two aliens are spawned at 1.99 s and 2.00 s and reach the
\* paddle together at 3.61 s, two more are spawned at 4.99 s and 5.00 s, are a
\* hair above the paddle at 6.59 s and on it at 6.61 s.
SiegeScript == <<199, 1, 161, 138, 1, 159, 2>>

\* The classes of input a run draws from: the values of time.delta(), in
\* hundredths of a second (script: the values of the first runs, one by
\* one; dts: the values after those), the keyboard states, and the values
\* gen_range chooses among.  Each class is chosen so that, with the speeds and
\* sizes of main.rs, rectangles do meet within its runs: 2 * 85 hundredths
\* bring an alien from the top onto the paddle and 2 * 95 onto the bottom wall;
\* a bullet and an alien spawned in the same run meet after 47; an alien
\* 2 * 80 below the top is one step of 2 away from the paddle; 20 moves the
\* paddle by 140; 250 is more than two periods of the spawn timer; 74 brings
\* a bullet from the paddle onto the top wall.
Environments ==
    { [name |-> "rain",  ticks |-> RainTicks, script |-> <<>>, dts |-> {85, 95},
       keys |-> {NoKeys}, xs |-> SpawnCandidates],
      [name |-> "steer", ticks |-> SteerTicks, script |-> <<>>, dts |-> {0, 50, 100},
       keys |-> {k \in KeyStates : ~k.space}, xs |-> SpawnCandidates],
      [name |-> "shoot", ticks |-> ShootTicks, script |-> <<>>, dts |-> {4, 47, 98},
       keys |-> {k \in KeyStates : ~k.left /\ ~k.right}, xs |-> SpawnCandidates],
      [name |-> "graze", ticks |-> GrazeTicks, script |-> <<>>, dts |-> {2, 80},
       keys |-> {k \in KeyStates : ~k.left /\ ~k.right}, xs |-> SpawnCandidates],
      [name |-> "aim",   ticks |-> AimTicks, script |-> <<>>, dts |-> {20},
       keys |-> {k \in KeyStates : ~k.right}, xs |-> SpawnCandidates],
      [name |-> "stall", ticks |-> StallTicks, script |-> <<>>, dts |-> {250},
       keys |-> {NoKeys}, xs |-> SpawnCandidates],
      [name |-> "exit",  ticks |-> ExitTicks, script |-> <<>>, dts |-> {74},
       keys |-> {k \in KeyStates : ~k.left /\ ~k.right}, xs |-> AbovePaddle],
      [name |-> "siege", ticks |-> SiegeTicks, script |-> SiegeScript, dts |-> {2},
       keys |-> {k \in KeyStates : ~k.left /\ ~k.right}, xs |-> AbovePaddle] }

\* The values time.delta() can have in the frame that begins after n runs of
\* FixedUpdate.
DtOptions(e, n) == IF n < Len(e.script) THEN {e.script[n + 1]} ELSE e.dts

----------------------------------------------------------------------------
VARIABLES
    state,            \* State<GameState>: "InGame" or "GameOver"
    next_state,       \* NextState<GameState>: "None" or the requested state
    started,          \* the initial OnEnter(InGame) has run
    pc,               \* the scheduler's place in the frame
    env,              \* the class of input this run draws from
    runs_left,        \* FixedUpdate runs still owed to this frame
    nticks,           \* FixedUpdate runs so far
    dt,               \* time.delta() of this frame
    keys,             \* Input<KeyCode>::pressed, for Left, Right and Space
    just_pressed,     \* Input<KeyCode>::just_pressed(Space)
    paddles,          \* entities with Paddle: sequence of [x, y]
    walls,            \* entities made by WallBundle::new: set of rectangles
    bullets,          \* entities with Bullet: sequence of [x, y, vx, vy]
    aliens,           \* entities with Alien: sequence of [x, y, vx, vy]
    commands,         \* the Commands queue of the running schedule
    score,            \* Scoreboard.score
    lives,            \* LivesCounter.count
    timer,            \* AlienSpawnTimer.timer: [elapsed, finished,
                      \* times_finished_this_tick]
    collision_events, \* unread CollisionEvents
    audio,            \* an AudioBundle entity was spawned
    text,             \* sections 1 and 3 of the scoreboard Text
    game_over_text,   \* the "Game Over" TextBundle exists
    fired,            \* history: projectiles spawned by fire_gun in this frame
    probe             \* history of SpecVelocity: the entities before two runs of
                      \* apply_velocity, and the two deltas

vars == <<state, next_state, started, pc, env, runs_left, nticks, dt, keys,
          just_pressed, paddles, walls, bullets, aliens, commands, score,
          lives, timer, collision_events, audio, text, game_over_text, fired,
          probe>>

world == <<paddles, walls, bullets, aliens>>
resources == <<score, lives, timer>>
engine == <<state, next_state, started, env, runs_left, nticks, dt, keys, just_pressed>>
display == <<audio, text, game_over_text>>

----------------------------------------------------------------------------
(* Helpers.                                                                *)

\* v * time.delta_seconds(), with d in hundredths of a second.
Scaled(v, d) == (v * d) \div 100

Min(a, b) == IF a < b THEN a ELSE b
Max(a, b) == IF a > b THEN a ELSE b

\* f32::clamp
Clamp(v, lo, hi) == Max(lo, Min(v, hi))

\* bevy::sprite::collide_aabb::collide(a_pos, a_size, b_pos, b_size).is_some():
\* the rectangles a_pos -+ a_size/2 and b_pos -+ b_size/2 intersect (strictly).
\* Both sides are doubled so that the half sizes stay whole numbers.
collide(a_pos, a_size, b_pos, b_size) ==
    /\ 2 * a_pos.x - a_size.x < 2 * b_pos.x + b_size.x
    /\ 2 * a_pos.x + a_size.x > 2 * b_pos.x - b_size.x
    /\ 2 * a_pos.y - a_size.y < 2 * b_pos.y + b_size.y
    /\ 2 * a_pos.y + a_size.y > 2 * b_pos.y - b_size.y

\* WallLocation::position / position_3d
WallPosition(location) ==
    CASE location = "Left"   -> [x |-> LEFT_WALL, y |-> 0]
      [] location = "Right"  -> [x |-> RIGHT_WALL, y |-> 0]
      [] location = "Bottom" -> [x |-> 0, y |-> BOTTOM_WALL]
      [] location = "Top"    -> [x |-> 0, y |-> TOP_WALL]

\* The walls only as long as the arena, without the corners.
WallSize_inner(location) ==
    IF location \in {"Left", "Right"}
    THEN [x |-> WALL_THICKNESS, y |-> TOP_WALL - BOTTOM_WALL]
    ELSE [x |-> RIGHT_WALL - LEFT_WALL, y |-> WALL_THICKNESS]

\* WallLocation::size
WallSize(location) ==
    LET arena_height == TOP_WALL - BOTTOM_WALL
        arena_width == RIGHT_WALL - LEFT_WALL
    IN  IF location \in {"Left", "Right"}
        THEN [x |-> WALL_THICKNESS, y |-> arena_height + WALL_THICKNESS]
        ELSE [x |-> arena_width + WALL_THICKNESS, y |-> WALL_THICKNESS]

\* WallBundle::new(location): the wall's Transform (translation and scale).
WallBundle(location) ==
    [location |-> location, pos |-> WallPosition(location), size |-> WallSize(location)]

WallLocations == {"Left", "Right", "Bottom", "Top"}

Pos(e) == [x |-> e.x, y |-> e.y]

RECURSIVE Keep(_, _, _)
\* The sequence s without the entries whose index is in gone.
Keep(s, gone, i) ==
    IF i > Len(s) THEN <<>>
    ELSE (IF i \in gone THEN <<>> ELSE <<s[i]>>) \o Keep(s, gone, i + 1)

----------------------------------------------------------------------------
(* Commands: deferred world edits, applied when the schedule's            *)
(* apply_deferred runs (for the FixedUpdate chain: after spawn_alien).    *)

NoEntity == [x |-> 0, y |-> 0, vx |-> 0, vy |-> 0]

\* commands.spawn(bundle)
Spawn(kind, e) == [op |-> "spawn", kind |-> kind, id |-> 0, e |-> e]
\* commands.entity(id).despawn(); an entity is named by its kind and its
\* index in that kind's sequence, which is stable until the queue is applied.
Despawn(kind, id) == [op |-> "despawn", kind |-> kind, id |-> id, e |-> NoEntity]

RECURSIVE SpawnedOf(_, _)
\* The entities of one kind the queue spawns, in queue order.
SpawnedOf(queue, kind) ==
    IF queue = <<>> THEN <<>>
    ELSE (IF Head(queue).op = "spawn" /\ Head(queue).kind = kind
          THEN <<Head(queue).e>> ELSE <<>>) \o SpawnedOf(Tail(queue), kind)

\* The entities of one kind the queue asks to despawn.  A second request for
\* the same entity finds it gone and does nothing.
DespawnedOf(queue, kind) ==
    {queue[k].id : k \in {k \in 1..Len(queue) :
                            queue[k].op = "despawn" /\ queue[k].kind = kind}}

\* The queue applied for its spawns only.
Applied_spawns_only(queue, kind, entities) == entities \o SpawnedOf(queue, kind)

\* The queue applied to one kind's sequence.
Applied(queue, kind, entities) ==
    Keep(entities, DespawnedOf(queue, kind), 1) \o SpawnedOf(queue, kind)

----------------------------------------------------------------------------
(* Timer (bevy::time::Timer, TimerMode::Repeating), in hundredths.         *)

TimerDuration == ALIEN_SPAWN_TIME * 100

\* Timer::from_seconds(ALIEN_SPAWN_TIME, TimerMode::Repeating)
NewTimer == [elapsed |-> 0, finished |-> FALSE, times_finished_this_tick |-> 0]

\* Timer::tick(delta)
TimerTick(t, delta) ==
    LET e == t.elapsed + delta
    IN  IF e >= TimerDuration
        THEN [elapsed |-> e % TimerDuration, finished |-> TRUE,
              times_finished_this_tick |-> e \div TimerDuration]
        ELSE [elapsed |-> e, finished |-> FALSE, times_finished_this_tick |-> 0]

NoProbe == [d1 |-> 0, d2 |-> 0, run |-> 0, bullets |-> <<>>, aliens |-> <<>>]

----------------------------------------------------------------------------
Init ==
    /\ state = "InGame"
    /\ next_state = "None"
    /\ started = FALSE
    /\ pc = "PreUpdate"
    /\ env \in Environments
    /\ runs_left = 0
    /\ nticks = 0
    /\ dt = 0
    /\ keys = NoKeys
    /\ just_pressed = FALSE
    /\ paddles = <<>>
    /\ walls = {}
    /\ bullets = <<>>
    /\ aliens = <<>>
    /\ commands = <<>>
    /\ score = INITIAL_SCORE
    /\ lives = INITIAL_LIVES
    /\ timer = NewTimer
    /\ collision_events = 0
    /\ audio = FALSE
    /\ text = [score |-> <<>>, lives |-> <<>>]
    /\ game_over_text = FALSE
    /\ fired = 0
    /\ probe = NoProbe

----------------------------------------------------------------------------
(* The engine's part of a frame.                                           *)

\* First and PreUpdate: the clock advances, the keyboard is read, and the
\* engine settles how many FixedUpdate runs the elapsed time is worth.
BeginFrame ==
    /\ pc = "PreUpdate"
    /\ \E k \in env.keys, d \in DtOptions(env, nticks), n \in 0..MaxTicksPerFrame :
          /\ nticks + n <= env.ticks
          /\ (k.space /\ ~keys.space) => Len(bullets) < MaxBullets
          /\ keys' = k
          /\ just_pressed' = (k.space /\ ~keys.space)
          /\ dt' = d
          /\ runs_left' = n
    /\ fired' = 0
    /\ pc' = "StateTransition"
    /\ UNCHANGED <<state, next_state, started, env, nticks, world, commands,
                   resources, collision_events, display,
                   probe>>

\* StateTransition, first frame: the initial state's OnEnter schedule is due.
run_enter_schedule ==
    /\ pc = "StateTransition"
    /\ ~started
    /\ started' = TRUE
    /\ pc' = "setup"
    /\ UNCHANGED <<state, next_state, env, runs_left, nticks, dt, keys, just_pressed,
                   world, commands, resources, collision_events, display, fired,
                   probe>>

\* The paddle setup spawns.
NewPaddle == [x |-> 0, y |-> BOTTOM_WALL + GAP_BETWEEN_PADDLE_AND_FLOOR]

\* The four walls setup spawns.
NewWalls == {WallBundle(l) : l \in WallLocations}

\* OnEnter(GameState::InGame): setup, with its commands applied.
setup ==
    /\ pc = "setup"
    /\ paddles' = Append(paddles, NewPaddle)
    /\ walls' = walls \cup NewWalls
    /\ pc' = "StateTransition"
    /\ UNCHANGED <<engine, bullets, aliens, commands, resources,
                   collision_events, display, fired,
                   probe>>

\* StateTransition: apply_state_transition::<GameState>.
apply_state_transition ==
    /\ pc = "StateTransition"
    /\ started
    /\ IF next_state # "None" /\ next_state # state
       THEN /\ state' = next_state
            /\ pc' = "display_game_over"
       ELSE /\ state' = state
            /\ pc' = "FixedUpdate"
    /\ next_state' = "None"
    /\ UNCHANGED <<started, env, runs_left, nticks, dt, keys, just_pressed, world,
                   commands, resources, collision_events, display, fired,
                   probe>>

\* OnEnter(GameState::GameOver): display_game_over.
display_game_over ==
    /\ pc = "display_game_over"
    /\ game_over_text' = TRUE
    /\ pc' = "FixedUpdate"
    /\ UNCHANGED <<engine, world, commands, resources, collision_events,
                   audio, text, fired,
                   probe>>

\* The run condition left out.
InGame_always == TRUE

\* The systems of the FixedUpdate chain run only if in_state(GameState::InGame).
InGame == state = "InGame"

\* RunFixedUpdateLoop: one more run of the FixedUpdate schedule.
RunFixedUpdate ==
    /\ pc = "FixedUpdate"
    /\ runs_left > 0
    /\ runs_left' = runs_left - 1
    /\ nticks' = nticks + 1
    /\ pc' = IF InGame THEN "apply_velocity" ELSE "FixedUpdate"
    /\ UNCHANGED <<state, next_state, started, env, dt, keys, just_pressed, world,
                   commands, resources, collision_events, display, fired,
                   probe>>

\* RunFixedUpdateLoop: no run is owed; the frame goes on to Update.
EndFixedUpdate ==
    /\ pc = "FixedUpdate"
    /\ runs_left = 0
    /\ pc' = "Update"
    /\ UNCHANGED <<engine, world, commands, resources, collision_events,
                   display, fired,
                   probe>>

----------------------------------------------------------------------------
(* The FixedUpdate chain: apply_velocity, move_paddle, fire_gun,           *)
(* check_for_collisions, play_collision_sound, tick_alien_spawn_timer,     *)
(* spawn_alien, and then the schedule's apply_deferred.                    *)

\* The velocity added without the elapsed time.
Moved_unscaled(e, d) == [e EXCEPT !.x = e.x + e.vx, !.y = e.y + e.vy]

\* transform.translation += velocity * time.delta_seconds()
Moved(e, d) == [e EXCEPT !.x = e.x + Scaled(e.vx, d), !.y = e.y + Scaled(e.vy, d)]

\* Every entity with a Transform and a Velocity moves; no other does.
apply_velocity ==
    /\ pc = "apply_velocity"
    /\ bullets' = [i \in DOMAIN bullets |-> Moved(bullets[i], dt)]
    /\ aliens' = [i \in DOMAIN aliens |-> Moved(aliens[i], dt)]
    /\ pc' = "move_paddle"
    /\ UNCHANGED <<engine, paddles, walls, commands, resources,
                   collision_events, display, fired,
                   probe>>

\* The direction summed from the held keys.
\* The direction when Right overrides Left.
Direction_last_wins(k) == IF k.right THEN 1 ELSE IF k.left THEN -1 ELSE 0

Direction(k) == (IF k.left THEN -1 ELSE 0) + (IF k.right THEN 1 ELSE 0)

left_bound == LEFT_WALL + WALL_THICKNESS \div 2 + PADDLE_SIZE.x \div 2 + PADDLE_PADDING
right_bound == RIGHT_WALL - WALL_THICKNESS \div 2 - PADDLE_SIZE.x \div 2 - PADDLE_PADDING

\* move_paddle without the clamp.
NewPaddleX_unclamped(x, k, d) == x + Scaled(Direction(k) * PADDLE_SPEED, d)

\* The paddle's x after move_paddle.
NewPaddleX(x, k, d) ==
    Clamp(x + Scaled(Direction(k) * PADDLE_SPEED, d), left_bound, right_bound)

\* query.single_mut() panics unless exactly one entity matches.
move_paddle ==
    /\ pc = "move_paddle"
    /\ IF Len(paddles) # 1
       THEN /\ pc' = "panic"
            /\ UNCHANGED paddles
       ELSE /\ paddles' = <<[paddles[1] EXCEPT !.x = NewPaddleX(paddles[1].x, keys, dt)]>>
            /\ pc' = "fire_gun"
    /\ UNCHANGED <<engine, walls, bullets, aliens, commands, resources,
                   collision_events, display, fired,
                   probe>>

\* INITIAL_BULLET_DIRECTION.normalize() * BULLET_SPEED (the direction is a unit vector)
BulletVelocity ==
    [x |-> INITIAL_BULLET_DIRECTION.x * BULLET_SPEED,
     y |-> INITIAL_BULLET_DIRECTION.y * BULLET_SPEED]

\* The projectile placed half the paddle's height above its centre.
NewBullet_half(p) ==
    [x |-> p.x, y |-> p.y + PADDLE_SIZE.y \div 2,
     vx |-> BulletVelocity.x, vy |-> BulletVelocity.y]

\* The projectile fire_gun spawns for a paddle at p.
NewBullet(p) ==
    [x |-> p.x, y |-> p.y + PADDLE_SIZE.y, vx |-> BulletVelocity.x, vy |-> BulletVelocity.y]

fire_gun ==
    /\ pc = "fire_gun"
    /\ IF Len(paddles) # 1
       THEN /\ pc' = "panic"
            /\ UNCHANGED <<commands, fired>>
       ELSE /\ pc' = "check_for_collisions"
            /\ IF just_pressed
               THEN /\ commands' = Append(commands, Spawn("bullet", NewBullet(paddles[1])))
                    /\ fired' = fired + 1
               ELSE UNCHANGED <<commands, fired>>
    /\ UNCHANGED <<engine, world, resources, collision_events, display,
                   probe>>

\* The bullets whose rectangle intersects the collider's rectangle.
BulletHits(c_pos, c_size) ==
    {j \in DOMAIN bullets : collide(Pos(bullets[j]), BULLET_SIZE, c_pos, c_size)}

\* The (alien, bullet) pairs that collide.
AlienBulletPairs ==
    {p \in (DOMAIN aliens) \X (DOMAIN bullets) :
        p[2] \in BulletHits(Pos(aliens[p[1]]), ALIEN_SIZE)}

\* Only aliens tested against the bullets.
OtherBulletPairs_none == {}

\* The (paddle or wall, bullet) pairs that collide: they send an event only.
OtherBulletPairs ==
    LET others == {[location |-> "Paddle", pos |-> Pos(paddles[1]), size |-> PADDLE_SIZE]}
                  \cup walls
    IN  {p \in others \X (DOMAIN bullets) : p[2] \in BulletHits(p[1].pos, p[1].size)}

\* The aliens whose rectangle intersects the paddle's.
PaddleHits ==
    {i \in DOMAIN aliens :
        collide(Pos(paddles[1]), PADDLE_SIZE, Pos(aliens[i]), ALIEN_SIZE)}

\* The last test made against the top wall instead of the bottom wall.
BottomHits_top ==
    {i \in DOMAIN aliens :
        collide(WallPosition("Top"), WallSize("Top"), Pos(aliens[i]), ALIEN_SIZE)}

\* The aliens whose rectangle intersects the bottom wall's.
BottomHits ==
    {i \in DOMAIN aliens :
        collide(WallPosition("Bottom"), WallSize("Bottom"), Pos(aliens[i]), ALIEN_SIZE)}

\* The score when an alien on the paddle costs a point as well.
ScoreAfter_lives(s) ==
    s + 3 * Cardinality(AlienBulletPairs) - Cardinality(BottomHits) - Cardinality(PaddleHits)

\* scoreboard.score += 3 for every colliding (alien, bullet) pair,
\* scoreboard.score -= 1 for every alien on the bottom wall.
ScoreAfter(s) == s + 3 * Cardinality(AlienBulletPairs) - Cardinality(BottomHits)

RECURSIVE BulletLoop(_, _)
\* The inner loop over the bullets for alien i, from bullet j on.
BulletLoop(i, j) ==
    IF j > Len(bullets) THEN <<>>
    ELSE (IF <<i, j>> \in AlienBulletPairs
          THEN <<Despawn("alien", i), Despawn("bullet", j)>>
          ELSE <<>>) \o BulletLoop(i, j + 1)

RECURSIVE ColliderLoop(_)
\* The despawn requests of the outer loop, from alien i on (the paddle and
\* the walls are colliders too, and request nothing).
ColliderLoop(i) ==
    IF i > Len(aliens) THEN <<>>
    ELSE BulletLoop(i, 1)
         \o (IF i \in PaddleHits THEN <<Despawn("alien", i)>> ELSE <<>>)
         \o (IF i \in BottomHits THEN <<Despawn("alien", i)>> ELSE <<>>)
         \o ColliderLoop(i + 1)

\* lives_remaining.count -= 1, once for every alien on the paddle.  A u16
\* that would go below 0 panics in a build with overflow checks and wraps in
\* a build without them.
check_for_collisions ==
    /\ pc = "check_for_collisions"
    /\ \E overflow_checks \in BOOLEAN :
          IF Len(paddles) # 1
             \/ (overflow_checks /\ Cardinality(PaddleHits) > lives)
          THEN /\ pc' = "panic"
               /\ UNCHANGED <<score, lives, commands, collision_events>>
          ELSE /\ score' = ScoreAfter(score)
               /\ lives' = (lives - Cardinality(PaddleHits)) % (U16_MAX + 1)
               /\ commands' = commands \o ColliderLoop(1)
               /\ collision_events' = collision_events
                     + Cardinality(AlienBulletPairs) + Cardinality(OtherBulletPairs)
               /\ pc' = "play_collision_sound"
    /\ UNCHANGED <<engine, world, timer, display, fired,
                   probe>>

\* Plays a sound if a collision occurred, and clears the events.
play_collision_sound ==
    /\ pc = "play_collision_sound"
    /\ IF collision_events # 0
       THEN /\ collision_events' = 0
            /\ commands' = Append(commands, Spawn("audio", NoEntity))
       ELSE UNCHANGED <<collision_events, commands>>
    /\ pc' = "tick_alien_spawn_timer"
    /\ UNCHANGED <<engine, world, resources, display, fired,
                   probe>>

tick_alien_spawn_timer ==
    /\ pc = "tick_alien_spawn_timer"
    /\ timer' = TimerTick(timer, dt)
    /\ pc' = "spawn_alien"
    /\ UNCHANGED <<engine, world, commands, score, lives, collision_events,
                   display, fired,
                   probe>>

\* INITIAL_ALIEN_DIRECTION.normalize() * ALIEN_SPEED (the direction is a unit vector)
AlienVelocity ==
    [x |-> INITIAL_ALIEN_DIRECTION.x * ALIEN_SPEED,
     y |-> INITIAL_ALIEN_DIRECTION.y * ALIEN_SPEED]

\* The range taken half the alien's width inside the walls, both ends included.
SpawnXs_half ==
    LET lower_bound == LEFT_WALL + ALIEN_SIZE.x \div 2
        upper_bound == RIGHT_WALL - ALIEN_SIZE.x \div 2
    IN  {x \in env.xs : lower_bound <= x /\ x <= upper_bound}

\* gen_range(lower_bound..upper_bound): the values it can return.
SpawnXs ==
    LET lower_bound == LEFT_WALL + ALIEN_SIZE.x
        upper_bound == RIGHT_WALL - ALIEN_SIZE.x
    IN  {x \in env.xs : lower_bound <= x /\ x < upper_bound}

\* The alien placed half its height below the top wall.
NewAlien_by_height(starting_x) ==
    [x |-> starting_x, y |-> TOP_WALL - ALIEN_SIZE.y \div 2,
     vx |-> AlienVelocity.x, vy |-> AlienVelocity.y]

\* The alien spawn_alien spawns at starting_x.
NewAlien(starting_x) ==
    [x |-> starting_x, y |-> TOP_WALL - ALIEN_SIZE.x \div 2,
     vx |-> AlienVelocity.x, vy |-> AlienVelocity.y]

spawn_alien ==
    /\ pc = "spawn_alien"
    /\ IF timer.finished
       THEN \E starting_x \in SpawnXs :
               commands' = Append(commands, Spawn("alien", NewAlien(starting_x)))
       ELSE UNCHANGED commands
    /\ pc' = "apply_deferred"
    /\ UNCHANGED <<engine, world, resources, collision_events, display, fired,
                   probe>>

\* The end of the FixedUpdate schedule: the queued commands are applied.
apply_deferred ==
    /\ pc = "apply_deferred"
    /\ bullets' = Applied(commands, "bullet", bullets)
    /\ aliens' = Applied(commands, "alien", aliens)
    /\ audio' = (audio \/ SpawnedOf(commands, "audio") # <<>>)
    /\ commands' = <<>>
    /\ pc' = "FixedUpdate"
    /\ UNCHANGED <<engine, paddles, walls, resources, collision_events,
                   text, game_over_text, fired,
                   probe>>

----------------------------------------------------------------------------
(* Update: update_scoreboard and update_lives_remaining, both only         *)
(* run_if(in_state(GameState::InGame)).  They write different sections of  *)
(* the Text, so their order does not matter; the model runs them in the    *)
(* order of the tuple.                                                     *)

update_scoreboard ==
    /\ pc = "Update"
    /\ InGame
    /\ text' = [text EXCEPT !.score = <<score>>]
    /\ pc' = "update_lives_remaining"
    /\ UNCHANGED <<engine, world, commands, resources, collision_events,
                   audio, game_over_text, fired,
                   probe>>

\* The game ended one life early.
Requested_early(count, requested) == IF count < 2 THEN "GameOver" ELSE requested

\* The state NextState holds after update_lives_remaining read the count.
Requested(count, requested) == IF count < 1 THEN "GameOver" ELSE requested

update_lives_remaining ==
    /\ pc = "update_lives_remaining"
    /\ next_state' = Requested(lives, next_state)
    /\ text' = [text EXCEPT !.lives = <<lives>>]
    /\ pc' = "PreUpdate"
    /\ UNCHANGED <<state, started, env, runs_left, nticks, dt, keys, just_pressed,
                   world, commands, resources, collision_events, audio,
                   game_over_text, fired,
                   probe>>

\* Update in any other state: neither system runs.
SkipUpdate ==
    /\ pc = "Update"
    /\ ~InGame
    /\ pc' = "PreUpdate"
    /\ UNCHANGED <<engine, world, commands, resources, collision_events,
                   display, fired,
                   probe>>

----------------------------------------------------------------------------
Next ==
    \/ BeginFrame
    \/ run_enter_schedule
    \/ setup
    \/ apply_state_transition
    \/ display_game_over
    \/ RunFixedUpdate
    \/ EndFixedUpdate
    \/ apply_velocity
    \/ move_paddle
    \/ fire_gun
    \/ check_for_collisions
    \/ play_collision_sound
    \/ tick_alien_spawn_timer
    \/ spawn_alien
    \/ apply_deferred
    \/ update_scoreboard
    \/ update_lives_remaining
    \/ SkipUpdate

Spec == Init /\ [][Next]_vars

----------------------------------------------------------------------------
(* SpecVelocity: apply_velocity as a function of the entities and the      *)
(* elapsed time.  The world holds the paddle and the walls of setup and up *)
(* to one bullet and one alien, whose positions, velocities and the two    *)
(* deltas are drawn from the sets below (the velocities include a          *)
(* horizontal one, so that both lines of the loop are exercised);          *)
(* apply_velocity then runs twice, the second time with the second delta.  *)

ProbePositions == {-220, 0, 265}
ProbeSpeeds == {-300, 0, 700}
ProbeDts == {0, 2, 85}

ProbeEntities ==
    [x : ProbePositions, y : ProbePositions, vx : ProbeSpeeds, vy : ProbeSpeeds]

InitVelocity ==
    /\ state = "InGame"
    /\ next_state = "None"
    /\ started = TRUE
    /\ pc = "apply_velocity"
    /\ env = [name |-> "probe", ticks |-> 2, script |-> <<>>, dts |-> ProbeDts,
              keys |-> {NoKeys}, xs |-> SpawnCandidates]
    /\ runs_left = 1
    /\ nticks = 1
    /\ dt \in ProbeDts
    /\ keys = NoKeys
    /\ just_pressed = FALSE
    /\ paddles = <<NewPaddle>>
    /\ walls = NewWalls
    /\ bullets \in {<<>>} \cup {<<e>> : e \in ProbeEntities}
    /\ aliens \in {<<>>} \cup {<<[NewAlien(0) EXCEPT !.y = y]>> : y \in ProbePositions}
    /\ commands = <<>>
    /\ score = INITIAL_SCORE
    /\ lives = INITIAL_LIVES
    /\ timer = NewTimer
    /\ collision_events = 0
    /\ audio = FALSE
    /\ text = [score |-> <<>>, lives |-> <<>>]
    /\ game_over_text = FALSE
    /\ fired = 0
    /\ \E d2 \in ProbeDts :
          probe = [d1 |-> dt, d2 |-> d2, run |-> 0, bullets |-> bullets, aliens |-> aliens]

\* The next run of FixedUpdate reaches apply_velocity with the second delta
\* (no system in between writes the Transform of an entity with a Velocity).
SecondRun ==
    /\ pc = "move_paddle"
    /\ probe.run = 0
    /\ probe' = [probe EXCEPT !.run = 1]
    /\ dt' = probe.d2
    /\ pc' = "apply_velocity"
    /\ UNCHANGED <<state, next_state, started, env, runs_left, nticks, keys,
                   just_pressed, world, commands, resources, collision_events,
                   display, fired>>

NextVelocity == apply_velocity \/ SecondRun

SpecVelocity == InitVelocity /\ [][NextVelocity]_vars

----------------------------------------------------------------------------
(* SpecSpawn: spawn_alien as a function of the timer and of the value       *)
(* gen_range returns.  The state is the one after setup and a first run of  *)
(* FixedUpdate up to tick_alien_spawn_timer, of half a second or of one     *)
(* second; gen_range chooses among all the whole numbers between the walls. *)

SpawnProbeXs == LEFT_WALL..RIGHT_WALL
SpawnProbeDts == {50, 100}

InitSpawn ==
    /\ state = "InGame"
    /\ next_state = "None"
    /\ started = TRUE
    /\ pc = "spawn_alien"
    /\ env = [name |-> "spawn", ticks |-> 1, script |-> <<>>, dts |-> SpawnProbeDts,
              keys |-> {NoKeys}, xs |-> SpawnProbeXs]
    /\ runs_left = 0
    /\ nticks = 1
    /\ dt \in SpawnProbeDts
    /\ keys = NoKeys
    /\ just_pressed = FALSE
    /\ paddles = <<NewPaddle>>
    /\ walls = NewWalls
    /\ bullets = <<>>
    /\ aliens = <<>>
    /\ commands = <<>>
    /\ score = INITIAL_SCORE
    /\ lives = INITIAL_LIVES
    /\ timer = TimerTick(NewTimer, dt)
    /\ collision_events = 0
    /\ audio = FALSE
    /\ text = [score |-> <<>>, lives |-> <<>>]
    /\ game_over_text = FALSE
    /\ fired = 0
    /\ probe = NoProbe

NextSpawn == spawn_alien \/ apply_deferred

SpecSpawn == InitSpawn /\ [][NextSpawn]_vars

----------------------------------------------------------------------------
(* Claims.                                                                 *)

\* The systems of the FixedUpdate chain, by the scheduler's place.
ChainPcs == {"apply_velocity", "move_paddle", "fire_gun", "check_for_collisions",
             "play_collision_sound", "tick_alien_spawn_timer", "spawn_alien",
             "apply_deferred"}

\* C1 (as claimed): once Lives is 0 the game is over before the next
\* simulation tick: no run of the FixedUpdate chain starts with Lives = 0.
C1_NoTickWithZeroLives == pc = "apply_velocity" => lives # 0

\* C2 (as claimed): the paddle's x is always within [-370, 370].
C2_PaddleWithin370 ==
    \A i \in DOMAIN paddles : -370 <= paddles[i].x /\ paddles[i].x <= 370

\* C2 (amended): the paddle's x is always within [-375, 375], so its
\* rectangle never intersects the left or the right wall's; moving left for
\* 1 s from x = 0 ends at x = -375.
C2_PaddleInBounds ==
    /\ [](\A i \in DOMAIN paddles :
            /\ -375 <= paddles[i].x /\ paddles[i].x <= 375
            /\ \A w \in walls :
                  w.location \in {"Left", "Right"}
                  => ~collide(Pos(paddles[i]), PADDLE_SIZE, w.pos, w.size))
    /\ [][(/\ pc = "move_paddle" /\ pc' = "fire_gun"
           /\ paddles[1].x = 0 /\ keys.left /\ ~keys.right /\ dt = 100)
          => paddles'[1].x = -375]_vars

\* C2 witness: the first run of move_paddle, Left held for 1 s, has left the
\* paddle on the bound.
C2_Witness ==
    /\ pc = "fire_gun" /\ nticks = 1
    /\ keys.left /\ ~keys.right /\ dt = 100
    /\ paddles[1].x = -375

\* C3 (as claimed): a frame's runs of fire_gun spawn one projectile if Fire
\* went down in that frame and none otherwise.
C3_OneProjectilePerPress ==
    (pc = "Update" /\ InGame) => fired = (IF just_pressed THEN 1 ELSE 0)

\* Rectangle tests of the claims, spelled out from the sizes in main.rs.
OnBullet(a, b) == collide(Pos(b), BULLET_SIZE, Pos(a), ALIEN_SIZE)
OnBottom(a) == collide([x |-> 0, y |-> -300], [x |-> 910, y |-> 10], Pos(a), ALIEN_SIZE)
OnPaddle(a) ==
    \E i \in DOMAIN paddles : collide(Pos(paddles[i]), PADDLE_SIZE, Pos(a), ALIEN_SIZE)

\* A completed run of check_for_collisions.
CollisionStep == pc = "check_for_collisions" /\ pc' = "play_collision_sound"

\* The places of the scheduler between apply_velocity and apply_deferred,
\* where despawn requests may be pending.
MidTickPcs == ChainPcs \ {"apply_velocity"}

Requests(queue) == {queue[k] : k \in DOMAIN queue}

\* C4 (as claimed): check_for_collisions adds 3 to the score for every enemy
\* a projectile overlaps, and removes one enemy and one projectile per
\* overlapping pair.
C4_ThreePerEnemyOnePerPair ==
    [][CollisionStep =>
        LET pairs == {p \in (DOMAIN aliens) \X (DOMAIN bullets) :
                         OnBullet(aliens[p[1]], bullets[p[2]])}
            enemies == {p[1] : p \in pairs}
            projectiles == {p[2] : p \in pairs}
            bottoms == {i \in DOMAIN aliens : OnBottom(aliens[i])}
        IN  /\ score' - score + Cardinality(bottoms) = 3 * Cardinality(enemies)
            /\ Cardinality(enemies) = Cardinality(pairs)
            /\ Cardinality(projectiles) = Cardinality(pairs)]_vars

\* C5: a run of check_for_collisions takes 1 from the score for every enemy
\* on the bottom wall (besides the 3 for every enemy-projectile pair) and
\* requests its despawn; once the tick is over no enemy is on the bottom wall.
C5_BottomWall ==
    /\ [][CollisionStep =>
          LET pairs == {p \in (DOMAIN aliens) \X (DOMAIN bullets) :
                           OnBullet(aliens[p[1]], bullets[p[2]])}
              bottoms == {i \in DOMAIN aliens : OnBottom(aliens[i])}
          IN  /\ score' = score + 3 * Cardinality(pairs) - Cardinality(bottoms)
              /\ \A i \in bottoms : Despawn("alien", i) \in Requests(commands')]_vars
    /\ []((pc \notin MidTickPcs /\ pc # "panic")
            => \A i \in DOMAIN aliens : ~OnBottom(aliens[i]))

\* C5 witness: check_for_collisions has just found an enemy on the bottom
\* wall: the score is below 0 and the despawn is requested.
C5_Witness ==
    /\ pc = "play_collision_sound"
    /\ score < 0
    /\ \E i \in DOMAIN aliens :
          OnBottom(aliens[i]) /\ Despawn("alien", i) \in Requests(commands)

\* C6 (as claimed): a run of check_for_collisions with an enemy on the paddle
\* completes, takes exactly 1 from Lives for every such enemy and requests
\* its despawn, and once the tick is over no enemy is on the paddle.
C6_PaddleHitTakesOneLife ==
    /\ [][(pc = "check_for_collisions" /\ pc' # pc) =>
          LET hits == {i \in DOMAIN aliens : OnPaddle(aliens[i])}
          IN  hits # {} =>
                /\ pc' = "play_collision_sound"
                /\ lives' = lives - Cardinality(hits)
                /\ \A i \in hits : Despawn("alien", i) \in Requests(commands')]_vars
    /\ [](pc \notin MidTickPcs => \A i \in DOMAIN aliens : ~OnPaddle(aliens[i]))

\* C7: the systems of the FixedUpdate chain run only while the state is
\* InGame, and no step taken in GameOver changes an entity, the Score, the
\* Lives or the spawn timer.
C7_GatedByInGame ==
    /\ [](pc \in ChainPcs => state = "InGame")
    /\ [][state = "GameOver"
          => UNCHANGED <<paddles, walls, bullets, aliens, score, lives, timer>>]_vars

\* C7 witness: the state is GameOver, a FixedUpdate run is owed to the frame
\* and there are enemies its systems would move.
C7_Witness ==
    /\ state = "GameOver" /\ pc = "FixedUpdate" /\ runs_left > 0
    /\ aliens # <<>>

\* C8: GameOver is never left, the only change of state is InGame to
\* GameOver, and GameOver is requested only when Lives < 1.
C8_GameOverTerminal ==
    [][/\ state = "GameOver" => state' = "GameOver"
       /\ state' # state => (state = "InGame" /\ state' = "GameOver")
       /\ (next_state' = "GameOver" /\ next_state # "GameOver") => lives < 1]_vars

\* C8 witness: a later frame begins in GameOver, entered with Lives = 0.
C8_Witness ==
    /\ state = "GameOver" /\ pc = "PreUpdate" /\ game_over_text
    /\ lives = 0

\* position + velocity * dt, with dt in hundredths of a second.
Integrated(e, d) ==
    [x |-> e.x + (e.vx * d) \div 100, y |-> e.y + (e.vy * d) \div 100,
     vx |-> e.vx, vy |-> e.vy]

\* C9: after apply_velocity every entity with a velocity is at
\* position + velocity * dt and the paddle and the walls are where they were;
\* after a second run with dt2 every such entity is where one run with
\* dt1 + dt2 puts it.
C9_Additive ==
    pc = "move_paddle" =>
        LET d == IF probe.run = 0 THEN probe.d1 ELSE probe.d1 + probe.d2
        IN  /\ DOMAIN bullets = DOMAIN probe.bullets
            /\ DOMAIN aliens = DOMAIN probe.aliens
            /\ \A i \in DOMAIN bullets : bullets[i] = Integrated(probe.bullets[i], d)
            /\ \A i \in DOMAIN aliens : aliens[i] = Integrated(probe.aliens[i], d)
            /\ probe.run = 1 =>
                  /\ \A i \in DOMAIN bullets :
                        bullets[i] = Moved(probe.bullets[i], probe.d1 + probe.d2)
                  /\ \A i \in DOMAIN aliens :
                        aliens[i] = Moved(probe.aliens[i], probe.d1 + probe.d2)
            /\ paddles = <<[x |-> 0, y |-> -240]>>
            /\ walls = NewWalls

\* C9 witness: apply_velocity has run twice, with two deltas above 0, on a
\* bullet that moves along both axes and an alien.
C9_Witness ==
    /\ pc = "move_paddle" /\ probe.run = 1
    /\ probe.d1 > 0 /\ probe.d2 > 0 /\ probe.d1 # probe.d2
    /\ aliens # <<>> /\ aliens[1].y # probe.aliens[1].y
    /\ bullets # <<>>
    /\ bullets[1].x # probe.bullets[1].x /\ bullets[1].y # probe.bullets[1].y

\* C10 (as claimed): the projectile is spawned at the paddle's x, half the
\* paddle's height above the paddle's centre, with velocity (0, 700).
C10_HalfHeightAbove ==
    \A c \in Requests(commands) :
        (c.op = "spawn" /\ c.kind = "bullet")
        => c.e = [x |-> paddles[1].x, y |-> paddles[1].y + 10, vx |-> 0, vy |-> 700]

\* C10 (amended): on a fire trigger fire_gun spawns one projectile, at the
\* paddle's x, the paddle's full height (20) above the paddle's centre, with
\* velocity (0, 700); without a trigger it spawns none.
C10_FullHeightAbove ==
    pc = "check_for_collisions" =>
        SpawnedOf(commands, "bullet")
            = IF just_pressed
              THEN <<[x |-> paddles[1].x, y |-> paddles[1].y + 20, vx |-> 0, vy |-> 700]>>
              ELSE <<>>

\* C10 witness: fire_gun has just spawned a projectile for a paddle that was
\* moved away from the centre.
C10_Witness ==
    /\ pc = "check_for_collisions" /\ just_pressed
    /\ paddles[1].x # 0
    /\ Spawn("bullet", [x |-> paddles[1].x, y |-> -220, vx |-> 0, vy |-> 700])
          \in Requests(commands)

\* spawn_alien can spawn an alien at x.
CanSpawnAt(x) ==
    ENABLED (spawn_alien /\ commands' = Append(commands, Spawn("alien", NewAlien(x))))

\* C11 (as claimed): an alien's x is within [-415, 415], and spawn_alien can
\* spawn an alien at every x of [-415, 415].
C11_SpawnWithin415 ==
    /\ \A i \in DOMAIN aliens : -415 <= aliens[i].x /\ aliens[i].x <= 415
    /\ (pc = "spawn_alien" /\ timer.finished) => \A x \in -415..415 : CanSpawnAt(x)

\* C11 (amended): an alien's x is within [-380, 380), and spawn_alien can
\* spawn an alien at every whole x of [-380, 380) and at no other.
C11_SpawnWithin380 ==
    /\ \A i \in DOMAIN aliens : -380 <= aliens[i].x /\ aliens[i].x < 380
    /\ (pc = "spawn_alien" /\ timer.finished) =>
          \A x \in -450..450 : CanSpawnAt(x) <=> (-380 <= x /\ x < 380)

\* C11 witness: an alien was spawned on the upper end of the range.
C11_Witness ==
    /\ pc = "FixedUpdate" /\ aliens # <<>>
    /\ aliens[1].x = 379

\* An alien as spawn_alien makes it: at y = 265 with velocity (0, -300).
FreshAlien(e) == e.y = 265 /\ e.vx = 0 /\ e.vy = -300

\* C12: every alien spawn_alien requests is at y = 265 with velocity
\* (0, -300); apply_velocity leaves every alien's x and takes 300 * dt from its
\* y; no other system moves an alien, and at the end of the tick the aliens
\* are those that were there, less the despawned, and the new ones.
C12_EnemyFalls ==
    [][/\ pc = "spawn_alien" =>
             \A k \in (DOMAIN commands') \ (DOMAIN commands) :
                commands'[k].kind = "alien" => FreshAlien(commands'[k].e)
       /\ pc = "apply_velocity" =>
             /\ DOMAIN aliens' = DOMAIN aliens
             /\ \A i \in DOMAIN aliens :
                   /\ aliens'[i].x = aliens[i].x
                   /\ aliens'[i].y = aliens[i].y - (300 * dt) \div 100
                   /\ aliens'[i].vx = 0 /\ aliens'[i].vy = -300
       /\ pc = "apply_deferred" =>
             \A j \in DOMAIN aliens' :
                \/ \E i \in DOMAIN aliens : aliens'[j] = aliens[i]
                \/ FreshAlien(aliens'[j])
       /\ pc \notin {"apply_velocity", "apply_deferred"} => aliens' = aliens]_vars

\* C12 witness: an alien spawned at y = 265 has been moved by a run of
\* apply_velocity with dt = 1 s and is at y = -35.
C12_Witness ==
    /\ pc = "move_paddle" /\ dt = 100
    /\ \E i \in DOMAIN aliens : aliens[i].y = -35

\* The number of destroy conditions alien a satisfies: one for every
\* projectile on it, one for the paddle, one for the bottom wall.
DestroyConditions(a) ==
    Cardinality({j \in DOMAIN bullets : OnBullet(a, bullets[j])})
    + (IF OnPaddle(a) THEN 1 ELSE 0) + (IF OnBottom(a) THEN 1 ELSE 0)

\* The entities of one kind a queue asks to despawn, once each.
Doomed(queue, kind) ==
    {r.id : r \in {q \in Requests(queue) : q.op = "despawn" /\ q.kind = kind}}

\* The number of entities of one kind a queue spawns.
Born(queue, kind) ==
    Cardinality({k \in DOMAIN queue : queue[k].op = "spawn" /\ queue[k].kind = kind})

\* C13 (as claimed): a run of check_for_collisions in which an alien
\* satisfies more than one destroy condition completes without a fault, with
\* 3 added to the score for every alien-projectile pair, 1 taken for every
\* alien on the bottom wall and 1 life taken for every alien on the paddle;
\* and when the requests are applied every requested entity is removed once,
\* however many requests name it.
C13_DestroyIdempotent ==
    [][/\ (/\ pc = "check_for_collisions" /\ pc' # pc
           /\ \E i \in DOMAIN aliens : DestroyConditions(aliens[i]) > 1) =>
             LET pairs == {p \in (DOMAIN aliens) \X (DOMAIN bullets) :
                              OnBullet(aliens[p[1]], bullets[p[2]])}
                 bottoms == {i \in DOMAIN aliens : OnBottom(aliens[i])}
                 hits == {i \in DOMAIN aliens : OnPaddle(aliens[i])}
             IN  /\ pc' = "play_collision_sound"
                 /\ score' = score + 3 * Cardinality(pairs) - Cardinality(bottoms)
                 /\ lives' = lives - Cardinality(hits)
                 /\ \A i \in DOMAIN aliens :
                       DestroyConditions(aliens[i]) > 0
                       => Despawn("alien", i) \in Requests(commands')
       /\ pc = "apply_deferred" =>
             /\ pc' = "FixedUpdate"
             /\ Len(aliens') = Len(aliens) - Cardinality(Doomed(commands, "alien"))
                                 + Born(commands, "alien")
             /\ Len(bullets') = Len(bullets) - Cardinality(Doomed(commands, "bullet"))
                                  + Born(commands, "bullet")]_vars

\* C14: once setup has run there are exactly the four walls, each where and
\* as large as the arena constants make it, and exactly one paddle, at the
\* height setup gave it; no request to despawn anything but an alien or a
\* projectile is ever queued.
C14_WallsAndPaddlePersist ==
    (started /\ pc # "setup") =>
        /\ walls = { [location |-> "Left",   pos |-> [x |-> -450, y |-> 0],
                                             size |-> [x |-> 10, y |-> 610]],
                     [location |-> "Right",  pos |-> [x |-> 450, y |-> 0],
                                             size |-> [x |-> 10, y |-> 610]],
                     [location |-> "Bottom", pos |-> [x |-> 0, y |-> -300],
                                             size |-> [x |-> 910, y |-> 10]],
                     [location |-> "Top",    pos |-> [x |-> 0, y |-> 300],
                                             size |-> [x |-> 910, y |-> 10]] }
        /\ Len(paddles) = 1
        /\ paddles[1].y = -240
        /\ \A k \in DOMAIN commands :
              commands[k].op = "despawn" => commands[k].kind \in {"alien", "bullet"}

\* C14 witness: the game is over after three aliens came down on the paddle,
\* and the paddle and the four walls are there.
C14_Witness ==
    /\ state = "GameOver" /\ lives = 0
    /\ Len(paddles) = 1 /\ Cardinality(walls) = 4

\* The system that follows each system of a tick, unless the run faults.
FollowedBy(a, b) == pc = a => pc' \in {b, "panic"}

\* C15 (as claimed): the systems of a tick run in the order apply_velocity,
\* move_paddle, fire_gun, check_for_collisions, (play_collision_sound,)
\* tick_alien_spawn_timer, spawn_alien, and when a tick ends no further tick
\* is owed to the frame: the Lives check of Update comes before the next
\* tick's apply_velocity.
C15_TickOrder ==
    /\ [][/\ FollowedBy("apply_velocity", "move_paddle")
          /\ FollowedBy("move_paddle", "fire_gun")
          /\ FollowedBy("fire_gun", "check_for_collisions")
          /\ FollowedBy("check_for_collisions", "play_collision_sound")
          /\ FollowedBy("play_collision_sound", "tick_alien_spawn_timer")
          /\ FollowedBy("tick_alien_spawn_timer", "spawn_alien")
          /\ FollowedBy("spawn_alien", "apply_deferred")
          /\ FollowedBy("Update", IF InGame THEN "update_lives_remaining" ELSE "PreUpdate")
          /\ FollowedBy("update_lives_remaining", "PreUpdate")]_vars
    /\ [](pc = "apply_deferred" => runs_left = 0)

\* C16 (as claimed): the timer adds up the elapsed time, fires in a tick
\* exactly when the sum reaches the period of 1 s and goes on from what is
\* left over, and spawn_alien spawns one alien for every period completed in
\* the tick (none when none was completed).
C16_OneSpawnPerPeriod ==
    [][/\ pc = "tick_alien_spawn_timer" =>
             /\ timer'.finished <=> (timer.elapsed + dt >= 100)
             /\ timer'.elapsed = (timer.elapsed + dt) % 100
             /\ timer'.times_finished_this_tick = (timer.elapsed + dt) \div 100
       /\ pc = "spawn_alien" =>
             Born(commands', "alien") - Born(commands, "alien")
                = timer.times_finished_this_tick]_vars

\* The walls and paddles projectile b is on.
Obstacles(b) ==
    {w \in walls : collide(Pos(b), BULLET_SIZE, w.pos, w.size)}
    \cup {<<"Paddle", i>> : i \in {i \in DOMAIN paddles :
                                    collide(Pos(b), BULLET_SIZE, Pos(paddles[i]), PADDLE_SIZE)}}

\* C17: a run of check_for_collisions requests the despawn of exactly the
\* projectiles that are on an alien and of exactly the aliens that are on a
\* projectile, the paddle or the bottom wall; it sends one event for every
\* projectile-alien, projectile-wall and projectile-paddle overlap, and when no
\* alien is on anything it changes neither Score nor Lives and requests
\* nothing.  A projectile or alien that is not requested survives the end of
\* the tick, wherever it is, and no other system removes one.
C17_OnlyEnemyHitsRemove ==
    [][/\ CollisionStep =>
             LET pairs == {p \in (DOMAIN aliens) \X (DOMAIN bullets) :
                              OnBullet(aliens[p[1]], bullets[p[2]])}
                 touched == {i \in DOMAIN aliens : DestroyConditions(aliens[i]) > 0}
             IN  /\ Doomed(commands', "bullet") = {p[2] : p \in pairs}
                 /\ Doomed(commands', "alien") = touched
                 /\ collision_events' - collision_events
                       = Cardinality(pairs)
                         + Cardinality({p \in (DOMAIN bullets) \X (UNION {Obstacles(bullets[j]) : j \in DOMAIN bullets}) :
                                          p[2] \in Obstacles(bullets[p[1]])})
                 /\ touched = {} =>
                       /\ score' = score /\ lives' = lives
                       /\ \A k \in DOMAIN commands' : commands'[k].op # "despawn"
       /\ pc = "apply_deferred" =>
             /\ \A j \in (DOMAIN bullets) \ Doomed(commands, "bullet") :
                   \E k \in DOMAIN bullets' : bullets'[k] = bullets[j]
             /\ \A i \in (DOMAIN aliens) \ Doomed(commands, "alien") :
                   \E k \in DOMAIN aliens' : aliens'[k] = aliens[i]
       /\ pc # "apply_deferred" =>
             /\ Len(bullets') = Len(bullets) /\ Len(aliens') = Len(aliens)]_vars

\* C17 witness: check_for_collisions has just found a projectile on the top
\* wall: an event was sent, nothing is requested, Score and Lives are as
\* they were.
C17_Witness ==
    /\ pc = "play_collision_sound" /\ collision_events > 0
    /\ \E j \in DOMAIN bullets :
          collide(Pos(bullets[j]), BULLET_SIZE, [x |-> 0, y |-> 300], [x |-> 910, y |-> 10])
    /\ \A k \in DOMAIN commands : commands[k].op # "despawn"
    /\ score = 0 /\ lives = 3

\* C18: a run of move_paddle leaves the paddle's x as it was when both or
\* neither of Left and Right are held, moves it left by PADDLE_SPEED * dt (no
\* further than -375) when only Left is held and right by as much (no
\* further than 375) when only Right is held; it changes neither the paddle's
\* y nor any wall, projectile or alien, and queues no command.
C18_Direction ==
    [][(pc = "move_paddle" /\ pc' = "fire_gun") =>
          /\ Len(paddles') = 1
          /\ paddles'[1].y = paddles[1].y
          /\ (keys.left = keys.right) => paddles'[1].x = paddles[1].x
          /\ (keys.left /\ ~keys.right) =>
                paddles'[1].x = Max(paddles[1].x - 7 * dt, -375)
          /\ (keys.right /\ ~keys.left) =>
                paddles'[1].x = Min(paddles[1].x + 7 * dt, 375)
          /\ UNCHANGED <<walls, bullets, aliens, commands>>]_vars

\* C18 witness: move_paddle has just run with both keys held and a nonzero
\* dt, on a paddle that an earlier tick had moved off the centre.
C18_Witness ==
    /\ pc = "fire_gun" /\ keys.left /\ keys.right /\ dt > 0
    /\ Len(paddles) = 1 /\ paddles[1].x # 0

\* C19: Lives stays within 0..3 and never increases, and whenever
\* check_for_collisions is about to run, Lives is at least the number of
\* aliens on the paddle, so that no decrement is executed with Lives = 0.
C19_LivesNeverUnderflows ==
    /\ [](lives \in 0..INITIAL_LIVES)
    /\ [][lives' <= lives]_vars
    /\ [](pc = "check_for_collisions" =>
             Cardinality({i \in DOMAIN aliens : OnPaddle(aliens[i])}) <= lives)

\* C20: the Score is 0 until the first tick, only a run of
\* check_for_collisions changes it, and that run adds 3 for every overlapping
\* (alien, projectile) pair and takes 1 for every alien on the bottom wall,
\* nothing else: an alien on the paddle takes a life and leaves the Score
\* alone.  Hence at all times Score = 3 * pairs so far - bottom-wall overlaps
\* so far.
C20_ScoreAccounting ==
    /\ [](nticks = 0 => score = 0)
    /\ [][/\ ~CollisionStep => score' = score
          /\ CollisionStep =>
                LET kills == Cardinality({p \in (DOMAIN aliens) \X (DOMAIN bullets) :
                                            OnBullet(aliens[p[1]], bullets[p[2]])})
                    landed == Cardinality({i \in DOMAIN aliens : OnBottom(aliens[i])})
                    caught == Cardinality({i \in DOMAIN aliens : OnPaddle(aliens[i])})
                IN  /\ score' = score + 3 * kills - landed
                    /\ (kills = 0 /\ landed = 0) => score' = score
                    /\ caught > 0 => lives' # lives]_vars

\* C20 witness: one run of check_for_collisions has found an alien that is on
\* the paddle and on a projectile: the Score is 3 and a life is gone.
C20_Witness ==
    /\ pc = "play_collision_sound" /\ score = 3 /\ lives = INITIAL_LIVES - 1
    /\ \E i \in DOMAIN aliens :
          /\ OnPaddle(aliens[i])
          /\ \E j \in DOMAIN bullets : OnBullet(aliens[i], bullets[j])

\* The entities of one kind before and after a queue is applied: those not
\* named by a despawn request stay, in their order, and the spawned ones
\* follow, in the order of the requests, as they were spawned.
AfterQueue(before, after, queue, kind) ==
    LET stay == (DOMAIN before) \ Doomed(queue, kind)
        new == {k \in DOMAIN queue : queue[k].op = "spawn" /\ queue[k].kind = kind}
    IN  /\ Len(after) = Cardinality(stay) + Cardinality(new)
        /\ \A i \in stay : after[Cardinality({j \in stay : j <= i})] = before[i]
        /\ \A k \in new :
              after[Cardinality(stay) + Cardinality({m \in new : m <= k})] = queue[k].e

\* C21: no request outlives its tick (the queue is empty outside a tick and
\* when a tick starts; a program that has panicked runs no further tick);
\* between the integrator and the end of the tick the
\* projectiles and aliens in the world do not change, whatever is queued, and
\* check_for_collisions scores and requests despawns for entities of the
\* world only; at the end of the tick every alien and projectile a despawn
\* request names is gone and every spawned one is added exactly as spawned,
\* to be moved by the integrator of the next tick.
C21_DeferredToEndOfTick ==
    /\ []((pc \notin MidTickPcs /\ pc # "panic") => commands = <<>>)
    /\ [][/\ (pc \in MidTickPcs /\ pc # "apply_deferred") =>
                bullets' = bullets /\ aliens' = aliens
          /\ CollisionStep =>
                /\ Doomed(commands', "bullet") \subseteq DOMAIN bullets
                /\ Doomed(commands', "alien") \subseteq DOMAIN aliens
                /\ score' - score
                      = 3 * Cardinality({p \in (DOMAIN aliens) \X (DOMAIN bullets) :
                                           OnBullet(aliens[p[1]], bullets[p[2]])})
                        - Cardinality({i \in DOMAIN aliens : OnBottom(aliens[i])})
          /\ pc = "apply_deferred" =>
                /\ AfterQueue(bullets, bullets', commands, "bullet")
                /\ AfterQueue(aliens, aliens', commands, "alien")
                /\ pc' = "FixedUpdate"]_vars

\* C21 witness: fire_gun has queued a projectile on top of an alien that is
\* on the paddle; check_for_collisions has requested the alien's despawn for
\* the paddle and has not seen the projectile: no point is scored and no
\* projectile is requested.
C21_Witness ==
    /\ pc = "play_collision_sound" /\ score = 0
    /\ Doomed(commands, "bullet") = {}
    /\ \E k \in DOMAIN commands :
          /\ commands[k].op = "spawn" /\ commands[k].kind = "bullet"
          /\ \E i \in Doomed(commands, "alien") :
                OnPaddle(aliens[i]) /\ OnBullet(aliens[i], commands[k].e)

====
